---- MODULE Spec2Model ----
(***************************************************************************)
(* Verification model of cdellacqua/miscellaneous_libs.rs.                 *)
(*                                                                         *)
(* Part 1 (SpecCtx): the frequency-bin model, DftCtx over DiscreteInterval.*)
(* Part 2 (SpecAnalyzers): StftAnalyzer and GoertzelAnalyzer.              *)
(* Further parts, each with its own specification: DiscreteFrequency       *)
(* (SpecFrequency), RectangleWindow (SpecRectangle), BufferHopper          *)
(* (SpecHopper), ResourceDaemon (SpecDaemon), InputStreamPoller            *)
(* (SpecPoller), AudioPlayer (SpecPlayer), MovingAverage (SpecAvg) and      *)
(* NextPowerOfTwo (SpecPow2).                                              *)
(*                                                                         *)
(* f32 values are modelled by exact numbers of the field Q(sqrt 2, sqrt 3): *)
(* <<a, b, c, e, d>> stands for (a + b*sqrt 2 + c*sqrt 3 + e*sqrt 6) / d,   *)
(* d > 0, in lowest terms.  Rounding of f32 is therefore not part of the   *)
(* model; cos, sin and 1/sqrt are exact on the arguments the model feeds   *)
(* them (multiples of TAU/24, window lengths dividing 24).                 *)
(***************************************************************************)
EXTENDS Integers, Sequences, FiniteSets, TLC

(* ------------------------------------------------------------------ *)
(* Bounds                                                             *)
(* ------------------------------------------------------------------ *)
MaxRate == 6

MaxWindow == 5

FreqDen == 2

\* analyzers: the longest list of bins requested from the Goertzel analyzer
MaxRequestedBins == 2

(* ------------------------------------------------------------------ *)
(* Exact arithmetic standing in for f32                               *)
(* ------------------------------------------------------------------ *)
Abs(n) == IF n < 0 THEN -n ELSE n

Min(a, b) == IF a < b THEN a ELSE b

RECURSIVE GCD(_, _)
GCD(m, n) == IF n = 0 THEN m ELSE GCD(n, m % n)

QReduce(a, b, c, e, d, g) == <<a \div g, b \div g, c \div g, e \div g, d \div g>>

\* <<a, b, c, e, d>> in lowest terms with d > 0
QN5(a, b, c, e, d) ==
    IF d = 1 THEN <<a, b, c, e, 1>>
    ELSE IF d < 0
    THEN QReduce(-a, -b, -c, -e, -d, GCD(GCD(GCD(Abs(a), Abs(b)), GCD(Abs(c), Abs(e))), Abs(d)))
    ELSE QReduce(a, b, c, e, d, GCD(GCD(GCD(Abs(a), Abs(b)), GCD(Abs(c), Abs(e))), Abs(d)))

\* the rational n / d
QRat(n, d) == QN5(n, 0, 0, 0, d)

QInt(n) == <<n, 0, 0, 0, 1>>

QZero == <<0, 0, 0, 0, 1>>

QOne == <<1, 0, 0, 0, 1>>

QNeg(x) == <<-x[1], -x[2], -x[3], -x[4], x[5]>>

QAdd(x, y) ==
    IF y = QZero THEN x
    ELSE IF x = QZero THEN y
    ELSE
    QN5(x[1] * y[5] + y[1] * x[5], x[2] * y[5] + y[2] * x[5],
        x[3] * y[5] + y[3] * x[5], x[4] * y[5] + y[4] * x[5], x[5] * y[5])

QSub(x, y) == QAdd(x, QNeg(y))

QMul(x, y) ==
    IF x = QZero \/ y = QZero THEN QZero
    ELSE IF y = QOne THEN x
    ELSE IF x = QOne THEN y
    ELSE
    QN5(x[1] * y[1] + 2 * x[2] * y[2] + 3 * x[3] * y[3] + 6 * x[4] * y[4],
        x[1] * y[2] + x[2] * y[1] + 3 * (x[3] * y[4] + x[4] * y[3]),
        x[1] * y[3] + x[3] * y[1] + 2 * (x[2] * y[4] + x[4] * y[2]),
        x[1] * y[4] + x[4] * y[1] + x[2] * y[3] + x[3] * y[2],
        x[5] * y[5])

\* division by a rational divisor (the only divisors the modelled code has)
QDiv(x, y) == QN5(x[1] * y[5], x[2] * y[5], x[3] * y[5], x[4] * y[5], x[5] * y[1])

\* order of two rationals
QLt(x, y) == x[1] * y[5] < y[1] * x[5]

QLe(x, y) == x[1] * y[5] <= y[1] * x[5]

(* ------------------------------------------------------------------ *)
(* math_utils::ext                                                    *)
(* ------------------------------------------------------------------ *)
mul_usize(x, rhs) == QMul(x, QInt(rhs))

div_usize(x, rhs) == QDiv(x, QInt(rhs))

\* `self as usize`: truncation toward zero, saturating at 0 for negatives
trunc_usize(x) == IF x[1] < 0 THEN 0 ELSE x[1] \div x[5]

(* ------------------------------------------------------------------ *)
(* math_utils::discrete_interval::DiscreteInterval                    *)
(* ------------------------------------------------------------------ *)
DiscreteInterval_new(interval, nbins) == [interval |-> interval, n_of_bins |-> nbins]

bin_width(di) == div_usize(QSub(di.interval[2], di.interval[1]), di.n_of_bins)

\* the condition of the debug_assert! of value_to_bin
value_in_range(di, value) == QLe(di.interval[1], value) /\ QLe(value, di.interval[2])

\* value_to_bin without the final .min(n_of_bins - 1)
value_to_bin_mut_no_min(di, value) ==
    trunc_usize(QDiv(QSub(value, di.interval[1]), bin_width(di)))

value_to_bin(di, value) ==
    Min(trunc_usize(QDiv(QSub(value, di.interval[1]), bin_width(di))), di.n_of_bins - 1)

bin_to_range_start(di, bin) == QAdd(di.interval[1], mul_usize(bin_width(di), bin))

bin_to_range_end(di, bin) == QAdd(di.interval[1], mul_usize(bin_width(di), bin + 1))

bin_range_mut_half_gap(di, bin) ==
    LET gap == bin_width(di)
        value == bin_to_range_start(di, bin)
    IN  <<value, QAdd(value, div_usize(gap, 2))>>

bin_range(di, bin) ==
    LET gap == bin_width(di)
        value == bin_to_range_start(di, bin)
    IN  <<value, QAdd(value, gap)>>

bin_midpoint_mut_full_gap(di, bin) ==
    LET gap == bin_width(di)
        value == bin_to_range_start(di, bin)
    IN  QAdd(value, gap)

bin_midpoint(di, bin) ==
    LET gap == bin_width(di)
        half_gap == div_usize(gap, 2)
        value == bin_to_range_start(di, bin)
    IN  QAdd(value, half_gap)

(* ------------------------------------------------------------------ *)
(* audio::analysis::DftCtx                                            *)
(* ------------------------------------------------------------------ *)
DftCtx_new(sample_rate, samples_per_window) ==
    [sample_rate |-> sample_rate, samples_per_window |-> samples_per_window]

n_of_bins(c) == c.samples_per_window \div 2 + 1

frequency_interval(c) ==
    LET sr == QInt(c.sample_rate)
        n  == QInt(c.samples_per_window)
    IN  DiscreteInterval_new(
            << QNeg(QDiv(QDiv(sr, QInt(2)), n)),
               QAdd(QDiv(sr, QInt(2)), QDiv(QDiv(sr, QInt(2)), n)) >>,
            n_of_bins(c))

frequency_to_bin(c, frequency) == value_to_bin(frequency_interval(c), frequency)

frequency_gap(c) == bin_width(frequency_interval(c))

bin_to_frequency(c, bin) == bin_midpoint(frequency_interval(c), bin)

bin_frequency_interval(c, bin) == bin_range(frequency_interval(c), bin)

bins(c) == 0 .. (n_of_bins(c) - 1)

(* ------------------------------------------------------------------ *)
(* f32::cos, f32::sin, f32::sqrt and Complex32                        *)
(* ------------------------------------------------------------------ *)
\* cos(i * TAU / 24) for i in 0 .. 6
CosFirstQuarter(i) ==
    CASE i = 0 -> <<1, 0, 0, 0, 1>>
      [] i = 1 -> <<0, 1, 0, 1, 4>>
      [] i = 2 -> <<0, 0, 1, 0, 2>>
      [] i = 3 -> <<0, 1, 0, 0, 2>>
      [] i = 4 -> <<1, 0, 0, 0, 2>>
      [] i = 5 -> <<0, -1, 0, 1, 4>>
      [] i = 6 -> <<0, 0, 0, 0, 1>>

\* cos(i * TAU / 24) for i in 0 .. 23
Cos24(i) ==
    IF i <= 6 THEN CosFirstQuarter(i)
    ELSE IF i <= 12 THEN QNeg(CosFirstQuarter(12 - i))
    ELSE IF i <= 18 THEN QNeg(CosFirstQuarter(i - 12))
    ELSE CosFirstQuarter(24 - i)

\* an angle is kept as the rational number of turns t it spans (TAU * t)
TurnIndex(t) == ((24 * t[1]) \div t[5]) % 24

cos(t) == Cos24(TurnIndex(t))

sin(t) == Cos24((TurnIndex(t) + 18) % 24)

\* 1.0 / (n as f32).sqrt(), for n dividing 24
inv_sqrt(n) ==
    CASE n = 1  -> <<1, 0, 0, 0, 1>>
      [] n = 2  -> <<0, 1, 0, 0, 2>>
      [] n = 3  -> <<0, 0, 1, 0, 3>>
      [] n = 4  -> <<1, 0, 0, 0, 2>>
      [] n = 6  -> <<0, 0, 0, 1, 6>>
      [] n = 8  -> <<0, 1, 0, 0, 4>>
      [] n = 12 -> <<0, 0, 1, 0, 6>>
      [] n = 24 -> <<0, 0, 0, 1, 12>>

\* Vec contents built by an iterator: the sequence with every element computed
collect(f) == SubSeq(f, 1, Len(f))

Complex_new(re, im) == <<re, im>>

Complex_ZERO == <<QZero, QZero>>

CAdd(x, y) == <<QAdd(x[1], y[1]), QAdd(x[2], y[2])>>

CMul(x, y) ==
    <<QSub(QMul(x[1], y[1]), QMul(x[2], y[2])), QAdd(QMul(x[1], y[2]), QMul(x[2], y[1]))>>

\* Complex32 * f32
CScale(x, f) == <<QMul(x[1], f), QMul(x[2], f)>>

(* ------------------------------------------------------------------ *)
(* audio::analysis::windowing_fns                                     *)
(* ------------------------------------------------------------------ *)
HannWindow == [kind |-> "Hann", rect_width |-> 0]

RectangleWindow_new(rect_width) == [kind |-> "Rectangle", rect_width |-> rect_width]

IdentityWindow == [kind |-> "Identity", rect_width |-> 0]

ratio_at(w, sample_idx, n_of_samples) ==
    CASE w.kind = "Hann" ->
            QMul(QRat(1, 2), QSub(QInt(1), cos(QRat(sample_idx, n_of_samples - 1))))
      [] w.kind = "Rectangle" ->
            LET rect_width == Min(w.rect_width, n_of_samples)
                offset == (n_of_samples - rect_width) \div 2
            IN  IF sample_idx < offset \/ sample_idx > n_of_samples - 1 - offset
                THEN QZero
                ELSE QInt(1)
      [] w.kind = "Identity" -> QInt(1)

windowing_values_of(w, samples_per_window) ==
    collect([i \in 1 .. samples_per_window |-> ratio_at(w, i - 1, samples_per_window)])

(* ------------------------------------------------------------------ *)
(* audio::analysis::DiscreteHarmonic                                  *)
(* ------------------------------------------------------------------ *)
DiscreteHarmonic_new(phasor, bin_idx) == [phasor |-> phasor, bin_idx |-> bin_idx]

DiscreteHarmonic_default == DiscreteHarmonic_new(Complex_ZERO, 0)

n_of_frequency_bins(samples_per_window) == samples_per_window \div 2 + 1

(* ------------------------------------------------------------------ *)
(* audio::analysis::dft::StftAnalyzer                                 *)
(* ------------------------------------------------------------------ *)
\* e^(i * TAU * t)
Twiddle(t) == Complex_new(cos(t), sin(t))

RECURSIVE DftSum(_, _, _)
\* sum over m = 0 .. upto - 1 of buffer[m] * e^(-i * TAU * k * m / n)
DftSum(buffer, k, upto) ==
    IF upto = 0 THEN Complex_ZERO
    ELSE CAdd(DftSum(buffer, k, upto - 1),
              CMul(buffer[upto], Twiddle(QRat(-(k * (upto - 1)), Len(buffer)))))

\* the forward FFT of rustfft, computed in place: the unnormalised forward DFT
fft_process(buffer) ==
    collect([k \in 1 .. Len(buffer) |-> DftSum(buffer, k - 1, Len(buffer))])

StftAnalyzer_new(sample_rate, samples_per_window, windowing_fn) ==
    LET transform_size == n_of_frequency_bins(samples_per_window)
    IN  [ sample_rate          |-> sample_rate,
          samples_per_window   |-> samples_per_window,
          windowing_values     |-> windowing_values_of(windowing_fn, samples_per_window),
          complex_signal       |-> [i \in 1 .. samples_per_window |-> Complex_ZERO],
          cur_transform_bins   |-> [i \in 1 .. transform_size |->
                                       DiscreteHarmonic_new(Complex_ZERO, i - 1)],
          normalization_factor |-> inv_sqrt(samples_per_window) ]

stft_window_signal_mut_keep_im(complex_signal, signal, windowing_values) ==
    collect([i \in 1 .. Len(complex_signal) |->
                IF i <= Min(Len(complex_signal), Min(Len(signal), Len(windowing_values)))
                THEN Complex_new(QMul(QInt(signal[i]), windowing_values[i]),
                                 complex_signal[i][2])
                ELSE complex_signal[i]])

\* the windowing loop: zip(complex_signal, signal, windowing_values)
stft_window_signal(complex_signal, signal, windowing_values) ==
    collect([i \in 1 .. Len(complex_signal) |->
                IF i <= Min(Len(complex_signal), Min(Len(signal), Len(windowing_values)))
                THEN Complex_new(QMul(QInt(signal[i]), windowing_values[i]), QZero)
                ELSE complex_signal[i]])

stft_store_transform_mut_default_bin(cur_transform_bins, complex_signal, normalization_factor) ==
    collect([i \in 1 .. Len(cur_transform_bins) |->
                IF i <= Min(Len(cur_transform_bins), Len(complex_signal))
                THEN DiscreteHarmonic_new(CScale(complex_signal[i], normalization_factor), 0)
                ELSE cur_transform_bins[i]])

\* the storing loop: zip(cur_transform_bins, complex_signal.take(transform_size))
stft_store_transform(cur_transform_bins, complex_signal, normalization_factor) ==
    collect([i \in 1 .. Len(cur_transform_bins) |->
                IF i <= Min(Len(cur_transform_bins), Len(complex_signal))
                THEN [cur_transform_bins[i] EXCEPT
                         !.phasor = CScale(complex_signal[i], normalization_factor)]
                ELSE cur_transform_bins[i]])

\* the analyzer once the FFT has run over the windowed signal
stft_transformed(self, transformed) ==
    [self EXCEPT
        !.complex_signal = transformed,
        !.cur_transform_bins =
            stft_store_transform(self.cur_transform_bins, transformed,
                                 self.normalization_factor)]

StftAnalyzer_analyze_mut_check_after_windowing(self, signal) ==
    IF Len(signal) # self.samples_per_window
    THEN [self |-> [self EXCEPT !.complex_signal =
                       stft_window_signal(self.complex_signal, signal,
                                          self.windowing_values)],
          panicked |-> TRUE]
    ELSE [self |-> stft_transformed(self,
                       fft_process(stft_window_signal(self.complex_signal, signal,
                                                      self.windowing_values))),
          panicked |-> FALSE]

\* analyze: the analyzer after the call and whether the call panicked
StftAnalyzer_analyze(self, signal) ==
    IF Len(signal) # self.samples_per_window
    THEN [self |-> self, panicked |-> TRUE]
    ELSE [self |-> stft_transformed(self,
                       fft_process(stft_window_signal(self.complex_signal, signal,
                                                      self.windowing_values))),
          panicked |-> FALSE]

(* ------------------------------------------------------------------ *)
(* audio::analysis::dft::GoertzelAnalyzer                             *)
(* ------------------------------------------------------------------ *)
RECURSIVE Insert(_, _)
Insert(sorted, x) ==
    IF sorted = <<>> THEN <<x>>
    ELSE IF x <= Head(sorted) THEN <<x>> \o sorted
    ELSE <<Head(sorted)>> \o Insert(Tail(sorted), x)

RECURSIVE sort_unstable(_)
sort_unstable(s) == IF s = <<>> THEN <<>> ELSE Insert(sort_unstable(Tail(s)), Head(s))

\* the coefficients of one bin, for the angle w = TAU * bin_idx / samples_per_window
goertzel_coefficient(w) == << QMul(QInt(2), cos(w)), Complex_new(cos(w), sin(w)) >>

goertzel_with_sorted_bins(samples_per_window, frequency_bins, windowing_fn) ==
    [ samples_per_window   |-> samples_per_window,
      coefficients         |-> collect([i \in 1 .. Len(frequency_bins) |->
                                   goertzel_coefficient(
                                       QRat(frequency_bins[i], samples_per_window))]),
      cur_transform        |-> [i \in 1 .. Len(frequency_bins) |-> DiscreteHarmonic_default],
      cur_signal           |-> [i \in 1 .. samples_per_window |-> QZero],
      frequency_bins       |-> frequency_bins,
      windowing_values     |-> windowing_values_of(windowing_fn, samples_per_window),
      normalization_factor |-> inv_sqrt(samples_per_window) ]

GoertzelAnalyzer_new_mut_unsorted(samples_per_window, frequency_bins, windowing_fn) ==
    goertzel_with_sorted_bins(samples_per_window, frequency_bins, windowing_fn)

GoertzelAnalyzer_new(samples_per_window, frequency_bins, windowing_fn) ==
    goertzel_with_sorted_bins(samples_per_window, sort_unstable(frequency_bins),
                              windowing_fn)

\* the windowing loop: zip(cur_signal, signal, windowing_values)
goertzel_window_signal(cur_signal, signal, windowing_values) ==
    collect([i \in 1 .. Len(cur_signal) |->
                IF i <= Min(Len(cur_signal), Min(Len(signal), Len(windowing_values)))
                THEN QMul(QInt(signal[i]), windowing_values[i])
                ELSE cur_signal[i]])

RECURSIVE goertzel_recurrence(_, _, _, _, _)
\* the loop over cur_signal from sample i on, entered with z1 and z2: <<z1, z2>> at its end
goertzel_recurrence(cur_signal, coeff0, i, z1, z2) ==
    IF i > Len(cur_signal) THEN <<z1, z2>>
    ELSE goertzel_recurrence(cur_signal, coeff0, i + 1,
                             QSub(QAdd(cur_signal[i], QMul(coeff0, z1)), z2), z1)

goertzel_phasor_mut_conjugate(z, coeff, normalization_factor) ==
    CScale(Complex_new(QSub(QMul(z[1], coeff[2][1]), z[2]), QNeg(QMul(z[1], coeff[2][2]))),
           normalization_factor)

\* the phasor of one bin: Complex32::new(z1 * coeff.1.re - z2, z1 * coeff.1.im) * norm
goertzel_phasor(z, coeff, normalization_factor) ==
    CScale(Complex_new(QSub(QMul(z[1], coeff[2][1]), z[2]), QMul(z[1], coeff[2][2])),
           normalization_factor)

goertzel_bin_point(cur_signal, coeff, normalization_factor, bin) ==
    DiscreteHarmonic_new(
        goertzel_phasor(goertzel_recurrence(cur_signal, coeff[1], 1, QZero, QZero),
                        coeff, normalization_factor),
        bin)

\* the analyzer once every requested bin has been evaluated on the windowed signal
goertzel_transformed(self, windowed) ==
    [self EXCEPT
        !.cur_signal = windowed,
        !.cur_transform =
            collect([i \in 1 .. Len(self.cur_transform) |->
                        IF i <= Min(Len(self.frequency_bins),
                                    Min(Len(self.coefficients), Len(self.cur_transform)))
                        THEN goertzel_bin_point(windowed, self.coefficients[i],
                                                self.normalization_factor,
                                                self.frequency_bins[i])
                        ELSE self.cur_transform[i]])]

GoertzelAnalyzer_analyze(self, signal) ==
    IF Len(signal) # self.samples_per_window
    THEN [self |-> self, panicked |-> TRUE]
    ELSE [self |-> goertzel_transformed(self,
                       goertzel_window_signal(self.cur_signal, signal,
                                              self.windowing_values)),
          panicked |-> FALSE]

(* ------------------------------------------------------------------ *)
(* State                                                              *)
(* ------------------------------------------------------------------ *)
VARIABLES
    ctx,               \* the DftCtx under test
    debug_assertions,  \* whether the build keeps debug_assert!
    call,              \* the last frequency-bin call: operation, arguments, result
    an_cfg,            \* what both analyzers were constructed with
    stft,              \* the StftAnalyzer
    goertzel,          \* the GoertzelAnalyzer
    an_call,           \* the last analyze call: analyzer, signal, panicked or returned
    stft_arg,          \* the signal of the last StftAnalyzer::analyze that returned
    goertzel_arg,      \* the signal of the last GoertzelAnalyzer::analyze that returned
    df,                \* a DiscreteFrequency value and the last operation on it
    rect,              \* a RectangleWindow, a window length and the weights read so far
    hopper,            \* a BufferHopper, its processor's log and everything fed to it
    daemon,            \* a ResourceDaemon, its thread and the threads calling it
    poller,            \* an InputStreamPoller, its input callback and its caller
    player,            \* an AudioPlayer, its output callback and its caller
    mavg,              \* a MovingAverage and the values pushed to it
    pow2               \* an integer type, a value of it and its next_pow_of_2

ctxVars == <<ctx, debug_assertions, call>>

anVars == <<an_cfg, stft, goertzel, an_call, stft_arg, goertzel_arg>>

restVars == <<df, rect, hopper, daemon, poller, player, mavg, pow2>>

vars == <<ctx, debug_assertions, call, an_cfg, stft, goertzel, an_call, stft_arg, goertzel_arg,
          df, rect, hopper, daemon, poller, player, mavg, pow2>>

\* the analyzers do not exist in the frequency-bin runs, nor the DftCtx in theirs
AnUnused ==
    /\ an_cfg = <<>> /\ stft = <<>> /\ goertzel = <<>>
    /\ an_call = <<>> /\ stft_arg = <<>> /\ goertzel_arg = <<>>

CtxUnused == ctx = <<>> /\ debug_assertions = FALSE /\ call = <<>>

\* the components a run does not construct; used names the one it does
RestUnusedBut(used) ==
    /\ (used # "df") => df = <<>>
    /\ (used # "rect") => rect = <<>>
    /\ (used # "hopper") => hopper = <<>>
    /\ (used # "daemon") => daemon = <<>>
    /\ (used # "poller") => poller = <<>>
    /\ (used # "player") => player = <<>>
    /\ (used # "mavg") => mavg = <<>>
    /\ (used # "pow2") => pow2 = <<>>

NoCall ==
    [op |-> "none", frequency |-> QZero, bin |-> 0, panicked |-> FALSE,
     ret_bin |-> 0, ret_frequency |-> QZero, ret_range |-> <<QZero, QZero>>]

\* the sampling contexts the model draws from, and the concrete one of the tests
Contexts ==
    { DftCtx_new(sr, n) : sr \in 1 .. MaxRate, n \in 1 .. MaxWindow }
        \cup { DftCtx_new(44100, 100) }

\* frequencies handed to frequency_to_bin: a grid of step 1/FreqDen reaching
\* one bin beyond both ends of the interval, every bin boundary and midpoint
Frequencies(c) ==
    IF c.sample_rate <= MaxRate
    THEN { QRat(k, FreqDen) :
              k \in (-(FreqDen * c.sample_rate)) .. (2 * FreqDen * c.sample_rate) }
         \cup { bin_to_range_start(frequency_interval(c), b) : b \in bins(c) }
         \cup { bin_to_range_end(frequency_interval(c), b) : b \in bins(c) }
         \cup { bin_midpoint(frequency_interval(c), b) : b \in bins(c) }
    ELSE { QInt(0), QInt(220), QRat(441, 2), QInt(440), QInt(441), QInt(22050) }

InitCtx ==
    /\ ctx \in Contexts
    /\ debug_assertions \in BOOLEAN
    /\ call = NoCall
    /\ AnUnused
    /\ RestUnusedBut("none")

\* DftCtx::frequency_to_bin -> DiscreteInterval::value_to_bin
FrequencyToBin ==
    \E f \in Frequencies(ctx) :
        LET di == frequency_interval(ctx)
            panics == debug_assertions /\ ~value_in_range(di, f)
        IN  /\ call' = [NoCall EXCEPT !.op = "frequency_to_bin",
                                      !.frequency = f,
                                      !.panicked = panics,
                                      !.ret_bin = IF panics THEN 0
                                                  ELSE frequency_to_bin(ctx, f)]
            /\ UNCHANGED <<ctx, debug_assertions, anVars, restVars>>

\* DftCtx::bin_to_frequency -> DiscreteInterval::bin_midpoint
BinToFrequency ==
    \E b \in 0 .. n_of_bins(ctx) :
        LET panics == debug_assertions /\ ~(b < n_of_bins(ctx))
        IN  /\ call' = [NoCall EXCEPT !.op = "bin_to_frequency",
                                      !.bin = b,
                                      !.panicked = panics,
                                      !.ret_frequency = IF panics THEN QZero
                                                        ELSE bin_to_frequency(ctx, b)]
            /\ UNCHANGED <<ctx, debug_assertions, anVars, restVars>>

\* DftCtx::bin_frequency_interval -> DiscreteInterval::bin_range
BinFrequencyInterval ==
    \E b \in 0 .. n_of_bins(ctx) :
        LET panics == debug_assertions /\ ~(b < n_of_bins(ctx))
        IN  /\ call' = [NoCall EXCEPT !.op = "bin_frequency_interval",
                                      !.bin = b,
                                      !.panicked = panics,
                                      !.ret_range = IF panics THEN <<QZero, QZero>>
                                                    ELSE bin_frequency_interval(ctx, b)]
            /\ UNCHANGED <<ctx, debug_assertions, anVars, restVars>>

NextCtx == FrequencyToBin \/ BinToFrequency \/ BinFrequencyInterval

SpecCtx == InitCtx /\ [][NextCtx]_vars

(* ------------------------------------------------------------------ *)
(* The analyzers: construction and analyze calls                      *)
(* ------------------------------------------------------------------ *)
\* window lengths on which cos, sin and 1/sqrt are exact
WindowLengths == {1, 2, 3, 4}

\* the Hann window where its weights are exact (and n > 1, its precondition)
WindowingFns(n) ==
    { IdentityWindow, RectangleWindow_new(2) }
        \cup (IF n > 1 /\ 24 % (n - 1) = 0 THEN { HannWindow } ELSE {})

RequestedBins(n) ==
    UNION { [1 .. len -> 0 .. (n \div 2)] : len \in 0 .. MaxRequestedBins }

\* signals of the configured length: silence, an impulse on the second sample,
\* a ramp; and constant signals one sample short or long
Signals(n) ==
    { [i \in 1 .. n |-> 0], [i \in 1 .. n |-> IF i = 2 THEN 1 ELSE 0], [i \in 1 .. n |-> i] }
        \cup { [i \in 1 .. m |-> 1] : m \in {n - 1, n + 1} }

NoAnalyze == [analyzer |-> "none", signal |-> <<>>, panicked |-> FALSE]

\* `earlier`: the analyzer had already returned from an analyze call before that one
NoArg == [returned |-> FALSE, signal |-> <<>>, earlier |-> FALSE]

InitAnalyzers ==
    /\ an_cfg \in { [samples_per_window |-> n, windowing_fn |-> w, requested_bins |-> l] :
                      n \in WindowLengths,
                      w \in UNION { WindowingFns(m) : m \in WindowLengths },
                      l \in UNION { RequestedBins(m) : m \in WindowLengths } }
    /\ an_cfg.windowing_fn \in WindowingFns(an_cfg.samples_per_window)
    /\ an_cfg.requested_bins \in RequestedBins(an_cfg.samples_per_window)
    /\ stft = StftAnalyzer_new(44100, an_cfg.samples_per_window, an_cfg.windowing_fn)
    /\ goertzel = GoertzelAnalyzer_new(an_cfg.samples_per_window, an_cfg.requested_bins,
                                       an_cfg.windowing_fn)
    /\ an_call = NoAnalyze
    /\ stft_arg = NoArg
    /\ goertzel_arg = NoArg
    /\ CtxUnused
    /\ RestUnusedBut("none")

\* the outcome r of an analyze call on `signal` reaches the caller
StftReturns(signal, r) ==
    /\ stft' = r.self
    /\ an_call' = [analyzer |-> "stft", signal |-> signal, panicked |-> r.panicked]
    /\ stft_arg' = IF r.panicked THEN stft_arg
                   ELSE [returned |-> TRUE, signal |-> signal,
                         earlier |-> stft_arg.returned]
    /\ UNCHANGED <<an_cfg, goertzel, goertzel_arg, ctxVars, restVars>>

\* StftAnalyzer::analyze(signal)
StftAnalyze ==
    \E signal \in Signals(an_cfg.samples_per_window) :
        StftReturns(signal, StftAnalyzer_analyze(stft, signal))

GoertzelReturns(signal, r) ==
    /\ goertzel' = r.self
    /\ an_call' = [analyzer |-> "goertzel", signal |-> signal, panicked |-> r.panicked]
    /\ goertzel_arg' = IF r.panicked THEN goertzel_arg
                       ELSE [returned |-> TRUE, signal |-> signal,
                             earlier |-> goertzel_arg.returned]
    /\ UNCHANGED <<an_cfg, stft, stft_arg, ctxVars, restVars>>

\* GoertzelAnalyzer::analyze(signal)
GoertzelAnalyze ==
    \E signal \in Signals(an_cfg.samples_per_window) :
        GoertzelReturns(signal, GoertzelAnalyzer_analyze(goertzel, signal))

NextAnalyzers == StftAnalyze \/ GoertzelAnalyze

SpecAnalyzers == InitAnalyzers /\ [][NextAnalyzers]_vars

(* ------------------------------------------------------------------ *)
(* Properties of the analyzers (checked under SpecAnalyzers)          *)
(* ------------------------------------------------------------------ *)
StftResult == stft.cur_transform_bins

GoertzelResult == goertzel.cur_transform

FreshStft == StftAnalyzer_new(44100, an_cfg.samples_per_window, an_cfg.windowing_fn)

FreshGoertzel ==
    GoertzelAnalyzer_new(an_cfg.samples_per_window, an_cfg.requested_bins,
                         an_cfg.windowing_fn)

SameSignalAnalyzed ==
    stft_arg.returned /\ goertzel_arg.returned /\ stft_arg.signal = goertzel_arg.signal

\* C1: for the same signal and configuration, the harmonic the Goertzel
\* analyzer returns for a requested bin k and the harmonic the STFT analyzer
\* returns at index k carry the same bin index and the same phasor (hence
\* the same amplitude and phase): the Goertzel result is the k-th forward
\* DFT coefficient of the windowed signal, both scaled by 1/sqrt(n).
C1_GoertzelAgreesWithStft ==
    SameSignalAnalyzed =>
        \A i \in 1 .. Len(GoertzelResult) :
            /\ GoertzelResult[i].bin_idx + 1 <= Len(StftResult)
            /\ StftResult[GoertzelResult[i].bin_idx + 1].bin_idx = GoertzelResult[i].bin_idx
            /\ StftResult[GoertzelResult[i].bin_idx + 1].phasor = GoertzelResult[i].phasor

C1_Witness ==
    /\ SameSignalAnalyzed
    /\ an_cfg.samples_per_window = 3
    /\ an_cfg.windowing_fn = IdentityWindow
    /\ Len(GoertzelResult) = 2
    /\ GoertzelResult[2].bin_idx = 1
    /\ GoertzelResult[2].phasor[2] # QZero
    /\ StftResult[2].phasor = GoertzelResult[2].phasor

\* C3: analyze called with a signal whose length differs from the window
\* length panics and returns nothing, for both analyzers, and leaves the
\* scratch and result buffers of the analyzers as they were.
C3_LengthMismatchPanics ==
    [][ (Len(an_call'.signal) # an_cfg.samples_per_window) =>
            /\ an_call'.panicked
            /\ stft' = stft
            /\ goertzel' = goertzel
            /\ stft_arg' = stft_arg
            /\ goertzel_arg' = goertzel_arg ]_vars

C3_Witness ==
    /\ an_call.analyzer = "stft"
    /\ an_call.panicked
    /\ Len(an_call.signal) = an_cfg.samples_per_window - 1
    /\ stft_arg.returned
    /\ \E i \in 1 .. Len(stft.complex_signal) : stft.complex_signal[i] # Complex_ZERO

\* C4: analyze carries no state from one call to the next.  Whatever calls
\* came before, the harmonics an analyzer returns for a signal are those a
\* freshly constructed analyzer of the same configuration returns for it.
C4_NoCrossCallState ==
    /\ stft_arg.returned =>
          StftResult = StftAnalyzer_analyze(FreshStft, stft_arg.signal).self.cur_transform_bins
    /\ goertzel_arg.returned =>
          GoertzelResult =
              GoertzelAnalyzer_analyze(FreshGoertzel, goertzel_arg.signal).self.cur_transform

C4_Witness ==
    /\ stft_arg.returned /\ stft_arg.earlier
    /\ goertzel_arg.returned /\ goertzel_arg.earlier
    /\ an_cfg.samples_per_window = 4
    /\ \E i \in 1 .. Len(StftResult) : StftResult[i].phasor[2] # QZero

RECURSIVE Count(_, _)
Count(s, x) ==
    IF s = <<>> THEN 0 ELSE (IF Head(s) = x THEN 1 ELSE 0) + Count(Tail(s), x)

\* C5: every analyze call of the Goertzel analyzer returns as many harmonics
\* as bins were passed to new, their bin indices in non-decreasing order, a
\* bin requested m times appearing m times.
C5_SortedNotDeduplicated ==
    goertzel_arg.returned =>
        /\ Len(GoertzelResult) = Len(an_cfg.requested_bins)
        /\ \A i \in 1 .. Len(GoertzelResult) - 1 :
              GoertzelResult[i].bin_idx <= GoertzelResult[i + 1].bin_idx
        /\ \A b \in 0 .. an_cfg.samples_per_window :
              Count([i \in 1 .. Len(GoertzelResult) |-> GoertzelResult[i].bin_idx], b)
                  = Count(an_cfg.requested_bins, b)

C5_Witness ==
    /\ goertzel_arg.returned
    /\ an_cfg.requested_bins = <<2, 0>>
    /\ GoertzelResult[1].bin_idx = 0
    /\ GoertzelResult[2].bin_idx = 2

\* C6: after construction and after any number of analyze calls the result
\* of the STFT analyzer has samples_per_window/2 + 1 entries, the i-th one
\* carrying bin index i.
C6_StftBinIdentities ==
    /\ Len(StftResult) = an_cfg.samples_per_window \div 2 + 1
    /\ \A i \in 1 .. Len(StftResult) : StftResult[i].bin_idx = i - 1

C6_Witness ==
    /\ stft_arg.returned /\ stft_arg.earlier
    /\ an_cfg.samples_per_window = 3
    /\ Len(StftResult) = 2
    /\ StftResult[2].phasor # Complex_ZERO

(* ------------------------------------------------------------------ *)
(* Properties of the frequency-bin model (checked under SpecCtx)      *)
(* ------------------------------------------------------------------ *)
ReturnedFrequency ==
    call.op = "bin_to_frequency" /\ ~call.panicked /\ call.bin \in bins(ctx)

ReturnedBin == call.op = "frequency_to_bin" /\ ~call.panicked

ReturnedRange ==
    call.op = "bin_frequency_interval" /\ ~call.panicked /\ call.bin \in bins(ctx)

\* C2: round-trip law.  For every bin b in 0..=samples_per_window/2 the
\* frequency bin_to_frequency(b) is mapped back to b by frequency_to_bin.
C2_RoundTrip ==
    ReturnedFrequency =>
        frequency_to_bin(ctx, call.ret_frequency) = call.bin

C2_Witness ==
    /\ ReturnedFrequency
    /\ ctx.samples_per_window = 5
    /\ call.bin = 1
    /\ frequency_to_bin(ctx, call.ret_frequency) = 1

\* C7: for 0 <= f <= sample_rate/2, frequency_to_bin(f) is
\* f * samples_per_window / sample_rate rounded half up, capped at
\* samples_per_window/2.
C7_RoundHalfUp ==
    (/\ ReturnedBin
     /\ QLe(QZero, call.frequency)
     /\ QLe(call.frequency, QRat(ctx.sample_rate, 2)))
        => call.ret_bin =
              Min(trunc_usize(QAdd(QDiv(mul_usize(call.frequency, ctx.samples_per_window),
                                        QInt(ctx.sample_rate)),
                                   QRat(1, 2))),
                  ctx.samples_per_window \div 2)

\* C8: bin_to_frequency(b) = b * sample_rate / samples_per_window for every
\* bin b in 0..=samples_per_window/2; bin 0 is centred on 0 Hz.
C8_BinCentre ==
    ReturnedFrequency =>
        call.ret_frequency = QRat(call.bin * ctx.sample_rate, ctx.samples_per_window)

\* C9: Nyquist boundary.  The last bin has index samples_per_window/2 and
\* its centre frequency is sample_rate/2.
C9_Nyquist ==
    (ReturnedFrequency /\ call.bin = n_of_bins(ctx) - 1) =>
        /\ call.bin = ctx.samples_per_window \div 2
        /\ call.ret_frequency = QRat(ctx.sample_rate, 2)

\* C10: the bin intervals partition the frequency axis consistently with
\* frequency_to_bin.  With bin_frequency_interval(b) = (low, high), every f
\* with low <= f < high maps to b, and high is the low of bin b + 1.
C10_Partition ==
    ReturnedRange =>
        LET low  == call.ret_range[1]
            high == call.ret_range[2]
        IN  /\ \A f \in Frequencies(ctx) :
                  (QLe(low, f) /\ QLt(f, high)) => frequency_to_bin(ctx, f) = call.bin
            /\ (call.bin + 1 < n_of_bins(ctx)) =>
                  high = bin_frequency_interval(ctx, call.bin + 1)[1]

C10_Witness ==
    /\ ReturnedRange
    /\ ctx.samples_per_window = 3
    /\ call.bin = 0
    /\ \E f \in Frequencies(ctx) :
          /\ f # call.ret_range[1]
          /\ QLe(call.ret_range[1], f)
          /\ QLt(f, call.ret_range[2])

\* C11 as stated: frequency_to_bin has no failure mode.  A frequency below
\* the interval of the lowest bin yields bin 0, one above the interval of the
\* highest bin yields bin samples_per_window/2, and the call never panics.
C11_NoFailureMode ==
    call.op = "frequency_to_bin" =>
        /\ ~call.panicked
        /\ QLt(call.frequency, frequency_interval(ctx).interval[1])
              => call.ret_bin = 0
        /\ QLt(frequency_interval(ctx).interval[2], call.frequency)
              => call.ret_bin = ctx.samples_per_window \div 2

\* C11 amended: in a build without debug assertions frequency_to_bin never
\* panics and clamps a frequency below the interval to bin 0 and one above it
\* to bin samples_per_window/2; in a build with debug assertions it panics
\* exactly on the frequencies outside the interval.
C11_ClampsUnlessDebugAssertions ==
    call.op = "frequency_to_bin" =>
        /\ call.panicked <=>
              (debug_assertions /\ ~value_in_range(frequency_interval(ctx), call.frequency))
        /\ (~call.panicked /\ QLt(call.frequency, frequency_interval(ctx).interval[1]))
              => call.ret_bin = 0
        /\ (~call.panicked /\ QLt(frequency_interval(ctx).interval[2], call.frequency))
              => call.ret_bin = ctx.samples_per_window \div 2

C11_Witness ==
    /\ ReturnedBin
    /\ ~debug_assertions
    /\ ctx.samples_per_window = 4
    /\ QLt(frequency_interval(ctx).interval[2], call.frequency)
    /\ call.ret_bin = 2

(* ------------------------------------------------------------------ *)
(* audio::analysis::DiscreteFrequency and its arithmetic               *)
(* ------------------------------------------------------------------ *)
\* the largest offset added to or subtracted from a DiscreteFrequency
MaxOffset == 2

\* the longest chain of +, -, += and -= applied to one value
MaxOps == 3

\* usize arithmetic wraps at the width of the target's pointer; the width
\* taken here is that of the 16-bit targets
UsizeModulus == 2 ^ 16

dft_frequency_interval(sample_rate, samples_per_window) ==
    LET sr == QInt(sample_rate)
        n  == QInt(samples_per_window)
    IN  DiscreteInterval_new(
            << QNeg(QDiv(QDiv(sr, QInt(2)), n)),
               QAdd(QDiv(sr, QInt(2)), QDiv(QDiv(sr, QInt(2)), n)) >>,
            n_of_frequency_bins(samples_per_window))

frequency_to_bin_idx(sample_rate, samples_per_window, frequency) ==
    value_to_bin(dft_frequency_interval(sample_rate, samples_per_window), frequency)

DiscreteFrequency_new(sample_rate, samples_per_window, bin_idx) ==
    [sample_rate |-> sample_rate, samples_per_window |-> samples_per_window,
     bin_idx |-> bin_idx]

DiscreteFrequency_from_frequency(sample_rate, samples_per_window, frequency) ==
    DiscreteFrequency_new(sample_rate, samples_per_window,
                          frequency_to_bin_idx(sample_rate, samples_per_window, frequency))

\* usize + usize and usize - usize: a panic when the build checks overflow,
\* the wrapped value when it does not
usize_add(a, b, overflow_checks) ==
    [panicked |-> overflow_checks /\ a + b >= UsizeModulus,
     value    |-> (a + b) % UsizeModulus]

usize_sub(a, b, overflow_checks) ==
    [panicked |-> overflow_checks /\ a < b,
     value    |-> (a - b + UsizeModulus) % UsizeModulus]

\* impl Add<usize> for DiscreteFrequency
DiscreteFrequency_add(self, rhs, overflow_checks) ==
    LET sum == usize_add(self.bin_idx, rhs, overflow_checks)
    IN  [panicked |-> sum.panicked,
         value    |-> DiscreteFrequency_new(self.sample_rate, self.samples_per_window,
                                            sum.value)]

\* impl AddAssign<usize> for DiscreteFrequency
DiscreteFrequency_add_assign(self, rhs, overflow_checks) ==
    LET sum == usize_add(self.bin_idx, rhs, overflow_checks)
    IN  [panicked |-> sum.panicked,
         value    |-> [self EXCEPT !.bin_idx = sum.value]]

\* impl Sub<usize> for DiscreteFrequency
DiscreteFrequency_sub(self, rhs, overflow_checks) ==
    LET diff == usize_sub(self.bin_idx, rhs, overflow_checks)
    IN  [panicked |-> diff.panicked,
         value    |-> DiscreteFrequency_new(self.sample_rate, self.samples_per_window,
                                            diff.value)]

\* impl SubAssign<usize> for DiscreteFrequency
DiscreteFrequency_sub_assign(self, rhs, overflow_checks) ==
    LET diff == usize_sub(self.bin_idx, rhs, overflow_checks)
    IN  [panicked |-> diff.panicked,
         value    |-> [self EXCEPT !.bin_idx = diff.value]]

\* the value is one that from_frequency returned: in a build with debug
\* assertions from_frequency panics on a frequency outside the interval.
\* Overflow checks follow debug assertions, as in cargo's dev and release
\* profiles.
InitFrequency ==
    /\ debug_assertions \in BOOLEAN
    /\ \E c \in Contexts :
         \E f \in Frequencies(c) :
            /\ ~(debug_assertions
                  /\ ~value_in_range(dft_frequency_interval(c.sample_rate,
                                                            c.samples_per_window), f))
            /\ df = [value |-> DiscreteFrequency_from_frequency(
                                   c.sample_rate, c.samples_per_window, f),
                     op |-> "from_frequency", rhs |-> 0, panicked |-> FALSE, ops |-> 0]
    /\ ctx = <<>> /\ call = <<>>
    /\ AnUnused
    /\ RestUnusedBut("df")

\* one arithmetic operation: a panic leaves no new value
DfApply(op, rhs, outcome) ==
    /\ df.ops < MaxOps
    /\ df' = [value |-> IF outcome.panicked THEN df.value ELSE outcome.value,
              op |-> op, rhs |-> rhs, panicked |-> outcome.panicked,
              ops |-> df.ops + 1]
    /\ UNCHANGED <<ctxVars, anVars, rect, hopper, daemon, poller, player, mavg, pow2>>

DfAdd ==
    \E rhs \in 0 .. MaxOffset :
        DfApply("add", rhs, DiscreteFrequency_add(df.value, rhs, debug_assertions))

DfAddAssign ==
    \E rhs \in 0 .. MaxOffset :
        DfApply("add_assign", rhs,
                DiscreteFrequency_add_assign(df.value, rhs, debug_assertions))

DfSub ==
    \E rhs \in 0 .. MaxOffset :
        DfApply("sub", rhs, DiscreteFrequency_sub(df.value, rhs, debug_assertions))

DfSubAssign ==
    \E rhs \in 0 .. MaxOffset :
        DfApply("sub_assign", rhs,
                DiscreteFrequency_sub_assign(df.value, rhs, debug_assertions))

NextFrequency == DfAdd \/ DfAddAssign \/ DfSub \/ DfSubAssign

SpecFrequency == InitFrequency /\ [][NextFrequency]_vars

\* C12: the bin index of a DiscreteFrequency always lies in
\* 0..=samples_per_window/2, for every value from_frequency produces and for
\* every value reached from it by +, -, += and -= with a bin-count offset.
C12_BinIdxInRange ==
    df.value.bin_idx \in 0 .. (df.value.samples_per_window \div 2)

\* the part of C12 that holds: from_frequency alone stays in range
C12_FromFrequencyInRange ==
    df.op = "from_frequency" => C12_BinIdxInRange

(* ------------------------------------------------------------------ *)
(* audio::analysis::RectangleWindow, read one index at a time          *)
(* ------------------------------------------------------------------ *)
MaxRectWidth == 7

MaxRectSamples == 6

InitRectangle ==
    /\ \E rect_width \in 0 .. MaxRectWidth, n_of_samples \in 1 .. MaxRectSamples :
          rect = [window |-> RectangleWindow_new(rect_width),
                  n_of_samples |-> n_of_samples,
                  weights |-> <<>>]
    /\ CtxUnused
    /\ AnUnused
    /\ RestUnusedBut("rect")

\* RectangleWindow::ratio_at on the next sample index of the window
RectRatioAt ==
    /\ Len(rect.weights) < rect.n_of_samples
    /\ rect' = [rect EXCEPT
                  !.weights = Append(@, ratio_at(rect.window, Len(rect.weights),
                                                 rect.n_of_samples))]
    /\ UNCHANGED <<ctxVars, anVars, df, hopper, daemon, poller, player, mavg, pow2>>

NextRectangle == RectRatioAt

SpecRectangle == InitRectangle /\ [][NextRectangle]_vars

\* the indices (from 0) whose weight is 1.0
RectOnes == { i \in 0 .. (Len(rect.weights) - 1) : rect.weights[i + 1] = QInt(1) }

RectAllRead == Len(rect.weights) = rect.n_of_samples

\* C13: the indices i in [0, N) with RectangleWindow(w).ratio_at(i, N) = 1.0
\* form one contiguous range of exactly min(w, N) indices, centred in the
\* window (leading and trailing zero-weight indices differ by at most one);
\* every other index gets 0.0.
C13_CentredRangeOfWidth ==
    RectAllRead =>
        \E lead \in 0 .. rect.n_of_samples :
            LET width == Min(rect.window.rect_width, rect.n_of_samples)
                trail == rect.n_of_samples - width - lead
            IN  /\ trail >= 0
                /\ Abs(lead - trail) <= 1
                /\ RectOnes = lead .. (lead + width - 1)
                /\ \A i \in 0 .. (rect.n_of_samples - 1) :
                      i \notin RectOnes => rect.weights[i + 1] = QZero

\* what the code does: the range is centred, and holds min(w, N) indices
\* when N - min(w, N) is even, one more when it is odd
C13_CentredRangeOfWidthOrOneMore ==
    RectAllRead =>
        LET width == Min(rect.window.rect_width, rect.n_of_samples)
            lead == (rect.n_of_samples - width) \div 2
        IN  /\ RectOnes = lead .. (rect.n_of_samples - 1 - lead)
            /\ Cardinality(RectOnes) = width + ((rect.n_of_samples - width) % 2)
            /\ \A i \in 0 .. (rect.n_of_samples - 1) :
                  i \notin RectOnes => rect.weights[i + 1] = QZero

(* ------------------------------------------------------------------ *)
(* buffer_hopper::BufferHopper                                         *)
(* ------------------------------------------------------------------ *)
MaxBatchSize == 4

\* the longest slice handed to one feed call
MaxFeedLen == 5

\* the most elements fed to one hopper over its lifetime
MaxFed == 9

BufferHopper_new_with_overlap(batch_size, overlap) ==
    [buffer |-> <<>>, batch_size |-> batch_size, overlap |-> overlap,
     processed_batches |-> 0]

BufferHopper_new(batch_size) == BufferHopper_new_with_overlap(batch_size, 0)

\* Vec::extend_from_slice(&data[from..to]), indices from 0, `to` excluded
extend_from_slice(buffer, data, from, to) == buffer \o SubSeq(data, from + 1, to)

\* slice::copy_within(src_start..src_end, dest), a memmove
copy_within(buffer, src_start, src_end, dest) ==
    [j \in 1 .. Len(buffer) |->
        IF j - 1 >= dest /\ j - 1 < dest + (src_end - src_start)
        THEN buffer[src_start + (j - 1 - dest) + 1]
        ELSE buffer[j]]

truncate(buffer, len) == SubSeq(buffer, 1, Min(len, Len(buffer)))

\* the end of a batch with the overlap taken from the front of the buffer
\* instead of its back
hopper_keep_overlap_mut_from_start(self) == truncate(self.buffer, self.overlap)

\* lines 55-57: the last `overlap` elements become the start of the next batch
hopper_keep_overlap(self) ==
    truncate(copy_within(self.buffer, self.batch_size - self.overlap, self.batch_size, 0),
             self.overlap)

\* the processor the hopper is driven with: it records the batch and the
\* batch index it is given, and leaves the batch as it is
processor(log, batch, batch_idx) == Append(log, [batch |-> batch, idx |-> batch_idx])

\* one iteration of the while loop of feed; st = [self, i, log]
feed_iteration(st, data) ==
    LET self     == st.self
        fillable == Min(self.batch_size - Len(self.buffer), Len(data) - st.i)
        filled   == [self EXCEPT
                       !.buffer = extend_from_slice(@, data, st.i, st.i + fillable)]
    IN  IF Len(filled.buffer) = filled.batch_size
        THEN [self |-> [filled EXCEPT !.processed_batches = @ + 1,
                                      !.buffer = hopper_keep_overlap(filled)],
              i    |-> st.i + fillable,
              log  |-> processor(st.log, filled.buffer, filled.processed_batches)]
        ELSE [self |-> filled, i |-> st.i + fillable, log |-> st.log]

RECURSIVE feed_loop(_, _)
feed_loop(st, data) ==
    IF st.i < Len(data) THEN feed_loop(feed_iteration(st, data), data) ELSE st

\* feed with `if` in place of `while`: one iteration at most
BufferHopper_feed_mut_single_iteration(self, data, log) ==
    LET st == [self |-> self, i |-> 0, log |-> log]
    IN  IF st.i < Len(data) THEN feed_iteration(st, data) ELSE st

BufferHopper_feed(self, data, log) ==
    feed_loop([self |-> self, i |-> 0, log |-> log], data)

\* `fed` is everything ever passed to feed, `log` the processor's record;
\* the elements fed are numbered in the order fed, so that every element of a
\* batch tells where it came from
InitHopper ==
    /\ \E batch_size \in 1 .. MaxBatchSize :
         \E overlap \in 0 .. (batch_size - 1) :
            hopper = [self |-> IF overlap = 0
                               THEN BufferHopper_new(batch_size)
                               ELSE BufferHopper_new_with_overlap(batch_size, overlap),
                      fed |-> <<>>, log |-> <<>>, last_len |-> 0, calls |-> 0]
    /\ CtxUnused
    /\ AnUnused
    /\ RestUnusedBut("hopper")

HopperFeed ==
    \E len \in 0 .. MaxFeedLen :
        LET data == [j \in 1 .. len |-> Len(hopper.fed) + j - 1]
            done == BufferHopper_feed(hopper.self, data, hopper.log)
        IN  /\ Len(hopper.fed) + len <= MaxFed
            /\ hopper.calls < MaxFed
            /\ hopper' = [self |-> done.self, fed |-> hopper.fed \o data,
                          log |-> done.log, last_len |-> len,
                          calls |-> hopper.calls + 1]
            /\ UNCHANGED <<ctxVars, anVars, df, rect, daemon, poller, player, mavg, pow2>>

NextHopper == HopperFeed

SpecHopper == InitHopper /\ [][NextHopper]_vars

\* C14: with batch size B and overlap o, the k-th processor invocation
\* (k = 0, 1, ...) receives batch index k and the elements at positions
\* k*(B-o) .. k*(B-o)+B-1 of everything fed, however the data was split
\* across the feed calls.
C14_BatchContents ==
    \A k \in 0 .. (Len(hopper.log) - 1) :
        LET B == hopper.self.batch_size
            o == hopper.self.overlap
        IN  /\ hopper.log[k + 1].idx = k
            /\ k * (B - o) + B <= Len(hopper.fed)
            /\ hopper.log[k + 1].batch = SubSeq(hopper.fed, k * (B - o) + 1, k * (B - o) + B)

C14_Witness ==
    /\ hopper.self.batch_size = 4
    /\ hopper.self.overlap = 3
    /\ Len(hopper.log) = 4
    /\ hopper.log[4] = [batch |-> <<3, 4, 5, 6>>, idx |-> 3]
    /\ hopper.last_len = 0
    /\ hopper.calls = 4

\* C15: when a feed call returns with n elements fed in total, the processor
\* has been invoked 0 times if n < B and (n - B) div (B - o) + 1 times
\* otherwise.
C15_BatchCount ==
    LET B == hopper.self.batch_size
        o == hopper.self.overlap
        n == Len(hopper.fed)
    IN  Len(hopper.log) = IF n < B THEN 0 ELSE (n - B) \div (B - o) + 1

C15_Witness ==
    /\ hopper.self.batch_size = 3
    /\ hopper.self.overlap = 1
    /\ Len(hopper.fed) = 7
    /\ hopper.last_len = 5
    /\ Len(hopper.log) = 3

(* ------------------------------------------------------------------ *)
(* resource_daemon::ResourceDaemon                                     *)
(*                                                                     *)
(* Three kinds of thread: the daemon thread spawned by new (it runs    *)
(* the provider, then holds the resource), the owner of the            *)
(* ResourceDaemon (it calls quit), and holders of a QuitSignal (each   *)
(* calls dispatch once).  Every action is one critical section of the  *)
(* state mutex, or one step outside it.                                *)
(* ------------------------------------------------------------------ *)
\* the number of threads holding a clone of the QuitSignal
MaxDispatchers == 2

Holding == [tag |-> "Holding", reason |-> "none"]

Quitting(reason) == [tag |-> "Quitting", reason |-> reason]

Quit(reason) == [tag |-> "Quit", reason |-> reason]

\* Condvar::notify_one: the daemon thread is the only thread that ever waits
notify_one(d) == IF d.thread = "waiting" THEN [d EXCEPT !.thread = "wait_while"] ELSE d

\* wake_to_quit without the notify_one
wake_to_quit_mut_no_notify(d, reason) ==
    IF d.state.tag = "Holding"
    THEN [d EXCEPT !.state = Quitting(reason)]
    ELSE d

wake_to_quit(d, reason) ==
    IF d.state.tag = "Holding"
    THEN notify_one([d EXCEPT !.state = Quitting(reason)])
    ELSE d

\* ResourceDaemon::new: the state is Holding, the thread is spawned and about
\* to call the provider
InitDaemon ==
    /\ daemon = [state |-> Holding,
                 thread |-> "provider",
                 resource |-> "none",
                 thread_handle |-> TRUE,
                 owner |-> "idle",
                 call |-> "none",
                 dispatchers |-> [i \in 1 .. MaxDispatchers |-> "idle"]]
    /\ CtxUnused
    /\ AnUnused
    /\ RestUnusedBut("daemon")

DaemonFrame == UNCHANGED <<ctxVars, anVars, df, rect, hopper, poller, player, mavg, pow2>>

\* the provider returns Ok(resource) or Err(err)
ProviderReturns ==
    /\ daemon.thread = "provider"
    /\ \/ daemon' = [daemon EXCEPT !.thread = "wait_while", !.resource = "held"]
       \/ daemon' = [daemon EXCEPT !.thread = "set_err"]
    /\ DaemonFrame

\* line 71
ThreadSetErr ==
    /\ daemon.thread = "set_err"
    /\ daemon' = [daemon EXCEPT !.state = Quit("err"), !.thread = "terminated"]
    /\ DaemonFrame

\* Condvar::wait_while, with the mutex held: wait while the state is Holding
ThreadWaitWhile ==
    /\ daemon.thread = "wait_while"
    /\ daemon' = [daemon EXCEPT
                    !.thread = IF daemon.state.tag = "Holding" THEN "waiting"
                               ELSE "drop_resource"]
    /\ DaemonFrame

\* a condition variable may wake its waiter without a notification
ThreadSpuriousWakeup ==
    /\ daemon.thread = "waiting"
    /\ daemon' = [daemon EXCEPT !.thread = "wait_while"]
    /\ DaemonFrame

\* lines 83-84: the guard is dropped, then the resource
ThreadDropResource ==
    /\ daemon.thread = "drop_resource"
    /\ daemon' = [daemon EXCEPT !.resource = "dropped", !.thread = "set_quit"]
    /\ DaemonFrame

\* lines 85-94
ThreadSetQuit ==
    /\ daemon.thread = "set_quit"
    /\ daemon' = [daemon EXCEPT
                    !.state = CASE daemon.state.tag = "Holding" -> Quit("none")
                                [] daemon.state.tag = "Quitting" -> Quit(daemon.state.reason)
                                [] daemon.state.tag = "Quit" -> daemon.state,
                    !.thread = "terminated"]
    /\ DaemonFrame

ThreadStep == ThreadSetErr \/ ThreadWaitWhile \/ ThreadDropResource \/ ThreadSetQuit

\* QuitSignal::dispatch, from any thread holding the signal
Dispatch ==
    \E i \in 1 .. MaxDispatchers :
        /\ daemon.dispatchers[i] = "idle"
        /\ daemon' = [wake_to_quit(daemon, "dispatch") EXCEPT !.dispatchers[i] = "returned"]
        /\ DaemonFrame

\* the owner calls quit(reason), for the first time or again
QuitCall ==
    /\ daemon.owner \in {"idle", "returned"}
    /\ daemon' = [daemon EXCEPT !.owner = "wake_to_quit", !.call = "quit"]
    /\ DaemonFrame

\* the owner drops the ResourceDaemon: Drop::drop, with no reason
DropCall ==
    /\ daemon.owner \in {"idle", "returned"}
    /\ daemon' = [daemon EXCEPT !.owner = "wake_to_quit", !.call = "drop"]
    /\ DaemonFrame

\* line 105, with Some(reason) from quit and None from drop
QuitWakeToQuit ==
    /\ daemon.owner = "wake_to_quit"
    /\ daemon' = [wake_to_quit(daemon, IF daemon.call = "quit" THEN "quit" ELSE "none")
                    EXCEPT !.owner = "join"]
    /\ DaemonFrame

\* lines 106-108: join returns once the thread has terminated
QuitJoin ==
    /\ daemon.owner = "join"
    /\ daemon.thread_handle => daemon.thread = "terminated"
    /\ daemon' = [daemon EXCEPT
                    !.thread_handle = FALSE,
                    !.owner = IF daemon.call = "quit" THEN "returned" ELSE "dropped"]
    /\ DaemonFrame

QuitStep == QuitWakeToQuit \/ QuitJoin

NextDaemon ==
    \/ ProviderReturns
    \/ ThreadSetErr
    \/ ThreadWaitWhile
    \/ ThreadSpuriousWakeup
    \/ ThreadDropResource
    \/ ThreadSetQuit
    \/ Dispatch
    \/ QuitCall
    \/ DropCall
    \/ QuitWakeToQuit
    \/ QuitJoin

\* threads that can run do run, and the provider returns
SpecDaemon ==
    /\ InitDaemon
    /\ [][NextDaemon]_vars
    /\ WF_vars(ProviderReturns)
    /\ WF_vars(ThreadStep)
    /\ WF_vars(QuitStep)

\* C16: quit drops the resource and stops the daemon thread.  Provided the
\* provider returns, a call of quit returns, under every interleaving with
\* the provider and with dispatch calls; and when it has returned the daemon
\* thread has terminated, the resource (if one was produced) is dropped and
\* state() is Quit(_).
C16_QuitStopsDaemon ==
    /\ [](daemon.owner = "returned" =>
            /\ daemon.thread = "terminated"
            /\ daemon.resource # "held"
            /\ daemon.state.tag = "Quit")
    /\ (daemon.owner = "wake_to_quit" /\ daemon.call = "quit") ~> (daemon.owner = "returned")

C16_Witness ==
    /\ daemon.owner = "returned"
    /\ daemon.resource = "dropped"
    /\ daemon.state = Quit("quit")
    /\ \E i \in 1 .. MaxDispatchers : daemon.dispatchers[i] = "returned"

(* ------------------------------------------------------------------ *)
(* audio::input::InputStreamPoller                                     *)
(*                                                                     *)
(* The input callback and samples_from_ref each run under the mutex of *)
(* the shared PollerState, so each is one action.  Option values are   *)
(* <<>> for None and <<v>> for Some(v).                                *)
(* ------------------------------------------------------------------ *)
\* N_CH ranges over 1 .. MaxChannels
MaxChannels == 2

\* n_of_samples, the frames the ring buffer holds, ranges over 1 .. MaxPollerFrames
MaxPollerFrames == 3

\* the most frames one input callback delivers
MaxCallbackFrames == 2

\* the most frames captured over the life of a poller
MaxCapturedFrames == 4

\* samples_to_extract ranges over 0 .. MaxExtract
MaxExtract == 4

\* AllocRingBuffer::extend_from_slice: the oldest samples make room
ring_extend_from_slice(buffer, capacity, data) ==
    LET all == buffer \o data
    IN  SubSeq(all, Len(all) - Min(Len(all), capacity) + 1, Len(all))

\* AllocRingBuffer::copy_to_slice(offset, &mut out), out of length out_len
copy_to_slice(buffer, offset, out_len) == SubSeq(buffer, offset + 1, offset + out_len)

\* InputStreamPoller::new: PollerState with the buffer pre-filled with 0.
PollerState_new(n_ch, n_of_samples) ==
    [buffer |-> [j \in 1 .. n_ch * n_of_samples |-> 0],
     collected_samples |-> n_of_samples]

\* the input callback, lines 99-123, on data.len() samples
input_callback(shared, n_ch, capacity, data) ==
    [buffer |-> ring_extend_from_slice(shared.buffer, capacity, data),
     collected_samples |-> shared.collected_samples + Len(data) \div n_ch]

\* lines 207-211
samples_from_ref_skip(n_of_samples, collected_samples, samples_to_extract, prev) ==
    CASE prev # <<>> /\ collected_samples - prev[1] >= n_of_samples
          -> <<>>
      [] prev # <<>> /\ ~(collected_samples - prev[1] >= n_of_samples)
          -> << n_of_samples - (collected_samples - prev[1]) >>
      [] prev = <<>>
          -> << n_of_samples - Min(samples_to_extract, n_of_samples) >>

\* InputStreamPoller::samples_from_ref; InterleavedAudioBuffer::new panics on
\* a buffer that is not a whole number of frames
samples_from_ref(self, samples_to_extract, previously_collected_samples) ==
    LET shared == self.shared
        collected_samples == shared.collected_samples
        skip == samples_from_ref_skip(self.n_of_samples, collected_samples,
                                      samples_to_extract, previously_collected_samples)
    IN  IF skip = <<>>
        THEN [kind |-> "None", buf |-> <<>>, count |-> 0]
        ELSE LET out_len == Len(shared.buffer) - skip[1]
                 out == IF out_len # 0 THEN copy_to_slice(shared.buffer, skip[1], out_len)
                        ELSE <<>>
             IN  IF Len(out) % self.n_ch # 0
                 THEN [kind |-> "panicked", buf |-> <<>>, count |-> 0]
                 ELSE [kind |-> "Some", buf |-> out, count |-> collected_samples]

\* the last call of samples_from_ref: its arguments, what it returned, and
\* the frames collected when it ran
NoPoll == [kind |-> "none", buf |-> <<>>, count |-> 0,
           samples_to_extract |-> 0, previously_collected_samples |-> <<>>,
           collected_samples |-> 0]

\* `stream` is every sample the buffer was ever given, the pre-filled zeros
\* first; the captured samples are numbered, so that a sample of a snapshot
\* tells which it is.  `counts` are the counts samples_from_ref has returned.
InitPoller ==
    /\ \E n_ch \in 1 .. MaxChannels, n_of_samples \in 1 .. MaxPollerFrames :
          poller = [n_ch |-> n_ch,
                    n_of_samples |-> n_of_samples,
                    shared |-> PollerState_new(n_ch, n_of_samples),
                    poisoned |-> FALSE,
                    stream |-> [j \in 1 .. n_ch * n_of_samples |-> 0],
                    counts |-> {},
                    ret |-> NoPoll]
    /\ CtxUnused
    /\ AnUnused
    /\ RestUnusedBut("poller")

PollerFrame == UNCHANGED <<ctxVars, anVars, df, rect, hopper, daemon, player, mavg, pow2>>

\* the audio host delivers whole frames
PollerInputCallback ==
    \E frames \in 1 .. MaxCallbackFrames :
        LET data == [j \in 1 .. frames * poller.n_ch |-> Len(poller.stream) + j]
        IN  /\ ~poller.poisoned
            /\ poller.shared.collected_samples + frames
                 <= poller.n_of_samples + MaxCapturedFrames
            /\ poller' = [poller EXCEPT
                            !.shared = input_callback(@, poller.n_ch,
                                                      poller.n_ch * poller.n_of_samples, data),
                            !.stream = @ \o data]
            /\ PollerFrame

\* a panic under the lock poisons the mutex
PollerSamplesFromRef ==
    \E samples_to_extract \in 0 .. MaxExtract :
        \E prev \in {<<>>} \cup { <<c>> : c \in poller.counts } :
            LET r == samples_from_ref(poller, samples_to_extract, prev)
            IN  /\ ~poller.poisoned
                /\ poller' = [poller EXCEPT
                                !.poisoned = (r.kind = "panicked"),
                                !.counts = IF r.kind = "Some" THEN @ \cup {r.count} ELSE @,
                                !.ret = [kind |-> r.kind, buf |-> r.buf, count |-> r.count,
                                         samples_to_extract |-> samples_to_extract,
                                         previously_collected_samples |-> prev,
                                         collected_samples |->
                                             poller.shared.collected_samples]]
                /\ PollerFrame

NextPoller == PollerInputCallback \/ PollerSamplesFromRef

SpecPoller == InitPoller /\ [][NextPoller]_vars

\* C17: snapshots concatenate precisely.  When samples_from_ref(_, Some(c1))
\* returns Some((buf, c2)), buf is exactly the frames c1 .. c2-1 of the
\* stream, c2 - c1 frames of N_CH samples, for every channel count; and when
\* those frames are no longer all in the ring buffer the call returns None.
C17_SnapshotsConcatenate ==
    (poller.ret.kind # "none" /\ poller.ret.previously_collected_samples # <<>>) =>
        LET c1 == poller.ret.previously_collected_samples[1]
        IN  /\ poller.ret.kind = "Some" =>
                  poller.ret.buf = SubSeq(poller.stream, poller.n_ch * c1 + 1,
                                          poller.n_ch * poller.ret.count)
            /\ poller.ret.collected_samples - c1 > poller.n_of_samples =>
                  poller.ret.kind = "None"

\* the part of C17 that holds: one channel
C17_SnapshotsConcatenateMono ==
    poller.n_ch = 1 => C17_SnapshotsConcatenate

\* C18: samples_from_ref extracts samples_to_extract frames or less, with
\* previously_collected_samples None and with Some(prev).
C18_ExtractsAtMost ==
    poller.ret.kind = "Some" =>
        Len(poller.ret.buf) <= poller.n_ch * poller.ret.samples_to_extract

\* the part of C18 that holds: one channel and None
C18_ExtractsAtMostMonoLast ==
    (poller.n_ch = 1 /\ poller.ret.previously_collected_samples = <<>>) =>
        C18_ExtractsAtMost

(* ------------------------------------------------------------------ *)
(* audio::output::AudioPlayer                                          *)
(*                                                                     *)
(* Two threads: the caller of set_signal, play and wait, and the audio *)
(* host running the output callback.  signal_tx/signal_rx is a         *)
(* sync_channel of capacity 0: send parks the sender until the         *)
(* receiver takes the value, and try_recv takes a value only from a    *)
(* parked sender.  Signals are numbered in the order handed over; the  *)
(* sleep of last_frame_delay at the end of wait is not modelled.       *)
(* ------------------------------------------------------------------ *)
\* the calls one caller makes
MaxPlayerCalls == 3

\* the frames of the longest signal
MaxSignalFrames == 2

\* the frames of the largest output buffer the host asks for
MaxOutputFrames == 2

PlayingState_default == [is_playing |-> FALSE]

\* AudioPlayer::new: nothing playing, nothing sent, the caller between calls
InitPlayer ==
    /\ player = [playing |-> PlayingState_default,
                 currently_playing |-> <<>>,
                 sending |-> <<>>,
                 caller |-> "idle",
                 op |-> "none",
                 calls |-> 0,
                 handed |-> 0,
                 handed_before_wait |-> 0,
                 finished |-> {}]
    /\ CtxUnused
    /\ AnUnused
    /\ RestUnusedBut("player")

PlayerFrame == UNCHANGED <<ctxVars, anVars, df, rect, hopper, daemon, poller, mavg, pow2>>

\* set_signal, lines 190-195, then the sender parks in send (line 196);
\* play starts with set_signal
PlayerSetSignal ==
    \E op \in {"set_signal", "play"}, n_of_samples \in 0 .. MaxSignalFrames :
        /\ player.caller \in {"idle", "wait_returned"}
        /\ player.calls < MaxPlayerCalls
        /\ player' = [player EXCEPT
                        !.playing = [is_playing |-> TRUE],
                        !.sending = << [id |-> player.handed + 1,
                                        n_of_samples |-> n_of_samples] >>,
                        !.handed = @ + 1,
                        !.caller = "send",
                        !.op = op,
                        !.calls = @ + 1]
        /\ PlayerFrame

\* wait is called by the caller
PlayerWaitCall ==
    /\ player.caller \in {"idle", "wait_returned"}
    /\ player.calls < MaxPlayerCalls
    /\ player' = [player EXCEPT !.caller = "wait", !.op = "wait", !.calls = @ + 1,
                                !.handed_before_wait = player.handed]
    /\ PlayerFrame

\* wait_while(.., |p| p.is_playing) returns, lines 175-181
PlayerWaitReturns ==
    /\ player.caller = "wait"
    /\ ~player.playing.is_playing
    /\ player' = [player EXCEPT !.caller = "wait_returned"]
    /\ PlayerFrame

\* the output callback with currently_playing = None, lines 95-103: try_recv
\* takes the signal of a parked sender, whose send then returns; play goes
\* on to wait
CallbackTryRecv ==
    /\ player.currently_playing = <<>>
    /\ player.sending # <<>>
    /\ player' = [player EXCEPT
                    !.currently_playing = << [frame_idx |-> 0,
                                              signal |-> player.sending[1]] >>,
                    !.sending = <<>>,
                    !.caller = IF player.op = "play" THEN "wait" ELSE "idle",
                    !.handed_before_wait = IF player.op = "play" THEN player.handed ELSE @]
    /\ PlayerFrame

\* the output callback while a signal is playing, lines 120-134
CallbackCopyFrames ==
    \E output_frames \in 1 .. MaxOutputFrames :
        /\ player.currently_playing # <<>>
        /\ LET cur == player.currently_playing[1]
               clamped_frames == Min(output_frames, cur.signal.n_of_samples - cur.frame_idx)
           IN  /\ ~(cur.frame_idx >= cur.signal.n_of_samples)
               /\ player' = [player EXCEPT
                               !.currently_playing =
                                   << [cur EXCEPT !.frame_idx = @ + clamped_frames] >>]
        /\ PlayerFrame

\* the output callback once the signal is exhausted, lines 105-119
CallbackSignalExhausted ==
    /\ player.currently_playing # <<>>
    /\ LET cur == player.currently_playing[1]
       IN  /\ cur.frame_idx >= cur.signal.n_of_samples
           /\ player' = [player EXCEPT
                           !.currently_playing = <<>>,
                           !.finished = @ \cup {cur.signal.id},
                           !.playing = [is_playing |-> FALSE]]
    /\ PlayerFrame

NextPlayer ==
    \/ PlayerSetSignal
    \/ PlayerWaitCall
    \/ PlayerWaitReturns
    \/ CallbackTryRecv
    \/ CallbackCopyFrames
    \/ CallbackSignalExhausted

SpecPlayer == InitPlayer /\ [][NextPlayer]_vars

\* C19: wait (and therefore play) returns only once playback is exhausted.
\* When wait returns, every signal handed to set_signal or play before the
\* wait has been consumed to its end by the output callback, and no signal is
\* being played.
C19_WaitReturnsAfterPlayback ==
    [][(player.caller = "wait" /\ player'.caller = "wait_returned") =>
          /\ player'.currently_playing = <<>>
          /\ \A id \in 1 .. player.handed_before_wait : id \in player'.finished]_vars

\* the part of C19 that holds: a wait that follows a single signal
C19_WaitAfterOneSignal ==
    [][(player.caller = "wait" /\ player'.caller = "wait_returned" /\ player.handed = 1) =>
          /\ player'.currently_playing = <<>>
          /\ 1 \in player'.finished]_vars

\* C20: set_signal does not block: it is never parked in send while a
\* signal set earlier is still being played.
C20_SetSignalDoesNotBlock ==
    ~(/\ player.op = "set_signal"
      /\ player.caller = "send"
      /\ player.currently_playing # <<>>)

(* ------------------------------------------------------------------ *)
(* math_utils::moving_avg::MovingAverage over f32                      *)
(* ------------------------------------------------------------------ *)
\* window_size ranges over 1 .. MaxAvgWindow
MaxAvgWindow == 3

\* the most values pushed between two resets
MaxPushes == 5

\* the most resets of one MovingAverage
MaxResets == 2

\* the values pushed
AvgValues == { QInt(0), QInt(1), QInt(2), QRat(1, 2) }

\* AllocRingBuffer::push on a full buffer keeping the oldest value and
\* dropping the new one
ring_push_mut_drop_new(series, capacity, value) ==
    IF Len(series) < capacity THEN Append(series, value) ELSE series

\* AllocRingBuffer::push: on a full buffer the oldest value makes room
ring_push(series, capacity, value) ==
    IF Len(series) < capacity THEN Append(series, value)
    ELSE Append(SubSeq(series, 2, Len(series)), value)

MovingAverage_new(window_size) == [series |-> <<>>, capacity |-> window_size]

MovingAverage_push(self, value) ==
    [self EXCEPT !.series = ring_push(@, self.capacity, value)]

MovingAverage_reset(self) == [self EXCEPT !.series = <<>>]

\* Iterator::reduce(|acc, cur| acc + cur) with the first i values already in acc
RECURSIVE reduce_add(_, _, _)
reduce_add(series, i, acc) ==
    IF i >= Len(series) THEN acc
    ELSE reduce_add(series, i + 1, QAdd(acc, series[i + 1]))

MovingAverage_avg(self) ==
    IF self.series = <<>>
    THEN QZero
    ELSE div_usize(reduce_add(self.series, 1, self.series[1]), Len(self.series))

\* `pushed` are the values pushed since the last reset, `ret` the result of
\* avg when avg was the last operation (<<>> otherwise)
InitAvg ==
    /\ \E window_size \in 1 .. MaxAvgWindow :
          mavg = [self |-> MovingAverage_new(window_size),
                  pushed |-> <<>>, resets |-> 0, ret |-> <<>>]
    /\ CtxUnused
    /\ AnUnused
    /\ RestUnusedBut("mavg")

AvgFrame == UNCHANGED <<ctxVars, anVars, df, rect, hopper, daemon, poller, player, pow2>>

AvgPush ==
    \E value \in AvgValues :
        /\ Len(mavg.pushed) < MaxPushes
        /\ mavg' = [mavg EXCEPT !.self = MovingAverage_push(@, value),
                                !.pushed = Append(@, value),
                                !.ret = <<>>]
        /\ AvgFrame

AvgReset ==
    /\ mavg.resets < MaxResets
    /\ mavg' = [mavg EXCEPT !.self = MovingAverage_reset(@),
                            !.pushed = <<>>,
                            !.resets = @ + 1,
                            !.ret = <<>>]
    /\ AvgFrame

AvgAvg ==
    /\ mavg.ret = <<>>
    /\ mavg' = [mavg EXCEPT !.ret = << MovingAverage_avg(mavg.self) >>]
    /\ AvgFrame

NextAvg == AvgPush \/ AvgReset \/ AvgAvg

SpecAvg == InitAvg /\ [][NextAvg]_vars

\* the sum of the last n values of a sequence
RECURSIVE SumOfLast(_, _)
SumOfLast(seq, n) ==
    IF n = 0 THEN QZero
    ELSE QAdd(SumOfLast(seq, n - 1), seq[Len(seq) - n + 1])

\* C21: with window size W >= 1, after any pushes and resets avg() is the
\* arithmetic mean of the last min(m, W) pushed values, m the number of
\* pushes since the last reset (or construction), and 0 when m = 0.
C21_MeanOfLastPushed ==
    mavg.ret # <<>> =>
        LET m == Len(mavg.pushed)
            n == Min(m, mavg.self.capacity)
        IN  mavg.ret[1] = IF m = 0 THEN QZero
                          ELSE QDiv(SumOfLast(mavg.pushed, n), QInt(n))

C21_Witness ==
    /\ mavg.ret = << QRat(5, 6) >>
    /\ mavg.self.capacity = 3
    /\ Len(mavg.pushed) = 4
    /\ mavg.resets = 1

(* ------------------------------------------------------------------ *)
(* math_utils::bit_manipulation::NextPowerOfTwo                        *)
(*                                                                     *)
(* An integer type is [signed, bits]; a value of it is the integer it  *)
(* denotes.  The 8-bit types are covered on all their values, the      *)
(* 16-bit types on the values around the powers of two; wider types    *)
(* run the same code with a larger BITS.  A result is [panicked,       *)
(* value].                                                             *)
(* ------------------------------------------------------------------ *)
IntTypes == { [signed |-> sg, bits |-> b] : sg \in BOOLEAN, b \in {8, 16} }

MIN(t) == IF t.signed THEN -(2 ^ (t.bits - 1)) ELSE 0

MAX(t) == IF t.signed THEN 2 ^ (t.bits - 1) - 1 ELSE 2 ^ t.bits - 1

\* the values next_pow_of_2 is applied to
IntValues(t) ==
    IF t.bits = 8
    THEN MIN(t) .. MAX(t)
    ELSE { v \in { s * (2 ^ e + d) : s \in {-1, 1}, e \in 0 .. t.bits, d \in {-1, 0, 1} } :
             v >= MIN(t) /\ v <= MAX(t) }

\* the value of type t with the low t.bits bits of n (two's complement)
wrapping(t, n) ==
    LET m == n % (2 ^ t.bits)
    IN  IF t.signed /\ m >= 2 ^ (t.bits - 1) THEN m - 2 ^ t.bits ELSE m

\* the bit pattern of a value, as a natural number
bit_pattern(t, v) == v % (2 ^ t.bits)

RECURSIVE bit_length(_)
bit_length(n) == IF n = 0 THEN 0 ELSE 1 + bit_length(n \div 2)

leading_zeros(t, v) == t.bits - bit_length(bit_pattern(t, v))

signum(v) == IF v > 0 THEN 1 ELSE IF v < 0 THEN -1 ELSE 0

\* iN::abs: MIN has no absolute value in the type
int_abs(t, v, overflow_checks) ==
    [panicked |-> overflow_checks /\ t.signed /\ v = MIN(t),
     value    |-> wrapping(t, Abs(v))]

\* 1 << rhs in type t: a shift by BITS or more panics when overflow is
\* checked and is taken modulo BITS when it is not; bits shifted out are lost
shl_one(t, rhs, overflow_checks) ==
    [panicked |-> overflow_checks /\ rhs >= t.bits,
     value    |-> wrapping(t, 2 ^ (rhs % t.bits))]

\* a * b in type t
int_mul(t, a, b, overflow_checks) ==
    [panicked |-> overflow_checks /\ (a * b < MIN(t) \/ a * b > MAX(t)),
     value    |-> wrapping(t, a * b)]

\* impl_next_power_of_two_for_unsigned
next_pow_of_2_unsigned(t, self, overflow_checks) ==
    shl_one(t, t.bits - leading_zeros(t, self), overflow_checks)

\* impl_next_power_of_two_for_signed
next_pow_of_2_signed(t, self, overflow_checks) ==
    LET abs     == int_abs(t, self, overflow_checks)
        shifted == shl_one(t, t.bits - leading_zeros(t, abs.value), overflow_checks)
        product == int_mul(t, signum(self), shifted.value, overflow_checks)
    IN  [panicked |-> abs.panicked \/ shifted.panicked \/ product.panicked,
         value    |-> product.value]

next_pow_of_2(t, self, overflow_checks) ==
    IF t.signed THEN next_pow_of_2_signed(t, self, overflow_checks)
    ELSE next_pow_of_2_unsigned(t, self, overflow_checks)

InitPow2 ==
    /\ \E t \in IntTypes :
         \E x \in IntValues(t) :
            \E overflow_checks \in BOOLEAN :
               pow2 = [type |-> t, x |-> x, overflow_checks |-> overflow_checks,
                       ret |-> <<>>]
    /\ CtxUnused
    /\ AnUnused
    /\ RestUnusedBut("pow2")

NextPowOf2 ==
    /\ pow2.ret = <<>>
    /\ pow2' = [pow2 EXCEPT !.ret = << next_pow_of_2(pow2.type, pow2.x,
                                                     pow2.overflow_checks) >>]
    /\ UNCHANGED <<ctxVars, anVars, df, rect, hopper, daemon, poller, player, mavg>>

NextPow2 == NextPowOf2

SpecPow2 == InitPow2 /\ [][NextPow2]_vars

IsPowerOfTwo(n) == n > 0 /\ 2 ^ (bit_length(n) - 1) = n

\* the smallest power of two strictly greater than x is returned
ReturnsNextPower ==
    /\ ~pow2.ret[1].panicked
    /\ IsPowerOfTwo(pow2.ret[1].value)
    /\ pow2.ret[1].value > pow2.x
    /\ pow2.ret[1].value <= 2 * pow2.x

\* C22: for every positive x of every integer type, x.next_pow_of_2() is the
\* smallest power of two strictly greater than x (256 -> 512, 255 -> 256),
\* the values of x whose highest value bit is set included.
C22_NextPowerOfTwo ==
    (pow2.ret # <<>> /\ pow2.x > 0) => ReturnsNextPower

\* the part of C22 that holds: the positive x whose highest value bit is
\* clear, i.e. those for which the next power of two is a value of the type
C22_NextPowerOfTwoWhenRepresentable ==
    (pow2.ret # <<>> /\ pow2.x > 0 /\ 2 * pow2.x <= MAX(pow2.type)) => ReturnsNextPower

====
